---- MODULE Spec2Model ----
(***************************************************************************)
(* Model of markets/_classes.py: class Ticker, a named time series whose   *)
(* rows carry a 'date' column holding a numeric instant (epoch seconds),   *)
(* with date-indexed lookups.                                              *)
(*                                                                         *)
(* Time is scaled: one calendar day is DayLen ticks instead of 86400       *)
(* seconds, and local time is UtcOffset ticks ahead of UTC.  Calendar      *)
(* dates are day numbers.  A row is a record with the single column        *)
(* 'date'; rows are told apart by their index in the table.                *)
(*                                                                         *)
(* Model of plotting/_linked_plot.py: the plot registry of                 *)
(* LinkedPlotWidget (plots, first_plot, latest_plot), under PlotSpec.      *)
(***************************************************************************)
EXTENDS Integers, Sequences, FiniteSets

\* ---- bounds of the model ----
DayLen == 2
NumDays == 3
MaxLen == 2
UtcOffset == 1

Dates == 0..(NumDays - 1)

\* ---- conversions between calendar dates and instants ----

\* datetime.datetime(date.year, date.month, date.day).timestamp():
\* the instant of local midnight of the calendar date.
Timestamp(date) == date * DayLen - UtcOffset

\* Mutant: the instant is read as a UTC date instead of a local one.
UtcFromTimestamp(ts) == ts \div DayLen

\* datetime.date.fromtimestamp(ts): the local calendar date of an instant.
FromTimestamp(ts) == (ts + UtcOffset) \div DayLen

\* every instant of the local days in Dates, midnight or not
Instants == Timestamp(0)..(Timestamp(NumDays) - 1)

Tables == UNION {[1..n -> [date : Instants]] : n \in 0..MaxLen}

Tickers == {<<"STL", "Statoil">>}

VARIABLES name, long_name, data, last, prev

\* LinkedPlotWidget: its registry fields, the plot objects it has created
\* (heap[n] is the n-th plot created) and the outcome of the last call
VARIABLES plot_row_counter, first_plot, plots, latest_plot, heap, wlast

tvars == <<name, long_name, data, last, prev>>

wvars == <<plot_row_counter, first_plot, plots, latest_plot, heap, wlast>>

vars == <<name, long_name, data, last, prev,
          plot_row_counter, first_plot, plots, latest_plot, heap, wlast>>

\* ---- outcomes of a call ----
IndexError == [kind |-> "IndexError"]
KeyError == [kind |-> "KeyError"]
GenericException == [kind |-> "Exception"]
ReturnDate(d) == [kind |-> "ok", date |-> d]
ReturnRow(i, r) == [kind |-> "ok", row_index |-> i, row |-> r]

\* ---- Ticker ----

\* np.where(self.data['date'] <cmp> timestamp)[0]: the indices of the rows
\* that satisfy the comparison, in ascending index order.
Where(d, cmp, timestamp) ==
    SelectSeq([i \in 1..Len(d) |-> i],
              LAMBDA i : CASE cmp = "==" -> d[i].date = timestamp
                           [] cmp = ">=" -> d[i].date >= timestamp
                           [] cmp = "<=" -> d[i].date <= timestamp
                           [] cmp = "<" -> d[i].date < timestamp)

\* Mutant: the index is 1, the second row, instead of 0.
get_first_date_second(d) ==
    IF Len(d) < 2 THEN IndexError
    ELSE ReturnDate(FromTimestamp(d[2].date))

get_first_date(d) ==
    IF Len(d) = 0 THEN IndexError
    ELSE ReturnDate(FromTimestamp(d[1].date))

get_last_date(d) ==
    IF Len(d) = 0 THEN IndexError
    ELSE ReturnDate(FromTimestamp(d[Len(d)].date))

\* the dict built from the row, its 'date' translated to a calendar date
get_row(d, index) == [date |-> FromTimestamp(d[index].date)]

\* Mutant: the translated date is written through to the stored row.
StoreWrittenThrough(d, index) ==
    [d EXCEPT ![index] = [date |-> FromTimestamp(d[index].date)]]

\* self.data after _get_row: line 55 assigns into the fresh dict built on
\* line 52, so the stored rows are left as they were.
StoreAfterGetRow(d, index) == d

\* Mutant: more than one match silently yields the first of them.
get_day_first_of_many(d, date) ==
    LET timestamp == Timestamp(date)
        matches == Where(d, "==", timestamp)
    IN  IF Len(matches) = 0 THEN KeyError
        ELSE ReturnRow(matches[1], get_row(d, matches[1]))

\* Mutant: the exact comparison is replaced by >=.
get_day_ge(d, date) ==
    LET timestamp == Timestamp(date)
        matches == Where(d, ">=", timestamp)
        match_count == Len(matches)
    IN  IF match_count = 0 THEN KeyError
        ELSE IF match_count = 1
             THEN ReturnRow(matches[1], get_row(d, matches[1]))
             ELSE GenericException

get_day(d, date) ==
    LET timestamp == Timestamp(date)
        matches == Where(d, "==", timestamp)
        match_count == Len(matches)
    IN  IF match_count = 0 THEN KeyError
        ELSE IF match_count = 1
             THEN ReturnRow(matches[1], get_row(d, matches[1]))
             ELSE GenericException

\* Mutant: the last matching row is taken instead of the first.
get_day_or_first_after_last(d, date) ==
    LET timestamp == Timestamp(date)
        matches == Where(d, ">=", timestamp)
    IN  IF Len(matches) = 0 THEN KeyError
        ELSE ReturnRow(matches[Len(matches)], get_row(d, matches[Len(matches)]))

\* Mutant: the comparison of get_day_or_last_before is used.
get_day_or_first_after_le(d, date) ==
    LET timestamp == Timestamp(date)
        matches == Where(d, "<=", timestamp)
    IN  IF Len(matches) = 0 THEN KeyError
        ELSE ReturnRow(matches[1], get_row(d, matches[1]))

get_day_or_first_after(d, date) ==
    LET timestamp == Timestamp(date)
        matches == Where(d, ">=", timestamp)
        match_count == Len(matches)
    IN  IF match_count = 0 THEN KeyError
        ELSE ReturnRow(matches[1], get_row(d, matches[1]))

\* Mutant: the first matching row is taken instead of the last.
get_day_or_last_before_first(d, date) ==
    LET timestamp == Timestamp(date)
        matches == Where(d, "<=", timestamp)
    IN  IF Len(matches) = 0 THEN KeyError
        ELSE ReturnRow(matches[1], get_row(d, matches[1]))

\* Mutant: the comparison is strict.
get_day_or_last_before_lt(d, date) ==
    LET timestamp == Timestamp(date)
        matches == Where(d, "<", timestamp)
    IN  IF Len(matches) = 0 THEN KeyError
        ELSE ReturnRow(matches[Len(matches)], get_row(d, matches[Len(matches)]))

get_day_or_last_before(d, date) ==
    LET timestamp == Timestamp(date)
        matches == Where(d, "<=", timestamp)
        match_count == Len(matches)
    IN  IF match_count = 0 THEN KeyError
        ELSE ReturnRow(matches[match_count], get_row(d, matches[match_count]))

\* ---- LinkedPlotWidget (plotting/_linked_plot.py) ----

\* ---- bounds of the model ----
\* add_plot is called at most MaxPlots times
MaxPlots == 3

Titles == {"a", "b"}
YAxisNames == {"close"}

\* the five entries of plot.nice_colors
NumColors == 5

\* None, as the value of first_plot and latest_plot; plot objects are 1, 2, ...
NoPlot == 0

\* a key of self.plots: a plot title, or id(plot) of the plot registered
TitleKey(t) == [kind |-> "title", title |-> t, id |-> NoPlot]
IdKey(p) == [kind |-> "id", title |-> "", id |-> p]

NoWidgetCall == [op |-> "none"]

\* LinkedPlotWidget.__init__
WidgetInit ==
    /\ plot_row_counter = 1
    /\ first_plot = NoPlot
    /\ plots = <<>>
    /\ latest_plot = NoPlot
    /\ heap = <<>>
    /\ wlast = NoWidgetCall

\* the plots registered in self.plots
Registered(ps) == {ps[k] : k \in DOMAIN ps}

\* the key add_plot registers the new plot under
unique_name(ps, plot, plot_title) ==
    IF TitleKey(plot_title) \in DOMAIN ps THEN IdKey(plot)
    ELSE TitleKey(plot_title)

\* self.plots[key] = plot
DictSet(ps, key, plot) ==
    [k \in DOMAIN ps \cup {key} |-> IF k = key THEN plot ELSE ps[k]]

\* self.plots.pop(key), for a key that is present
DictPop(ps, key) == [k \in DOMAIN ps \ {key} |-> ps[k]]

add_plot(plot_title) ==
    /\ plot_row_counter <= MaxPlots
    /\ LET plot == plot_row_counter
           key == unique_name(plots, plot, plot_title)
       IN  /\ plot_row_counter' = plot_row_counter + 1
           /\ heap' = Append(heap, [name |-> plot_title,
                                    nice_colors |-> NumColors,
                                    items |-> {}])
           /\ plots' = DictSet(plots, key, plot)
           /\ latest_plot' = plot
           /\ first_plot' = IF first_plot = NoPlot THEN plot ELSE first_plot
           /\ wlast' = [op |-> "add_plot", key |-> key,
                        keys_before |-> DOMAIN plots,
                        registered_before |-> Registered(plots)]
    /\ UNCHANGED tvars

\* The arrays passed are taken to have the 'date' and y_axis_name columns.
\* A subplot is named parent name + "_" + y_axis_name, so within one parent
\* it is identified by y_axis_name.
add_subplot(y_axis_name) ==
    /\ IF latest_plot = NoPlot
       THEN /\ wlast' = [op |-> "add_subplot", kind |-> "KeyError"]
            /\ UNCHANGED heap
       ELSE IF heap[latest_plot].nice_colors = 0
       THEN /\ wlast' = [op |-> "add_subplot", kind |-> "IndexError"]
            /\ UNCHANGED heap
       ELSE IF y_axis_name \in heap[latest_plot].items
       THEN \* the colour is taken and the curve drawn before the name check
            /\ heap' = [heap EXCEPT ![latest_plot].nice_colors = @ - 1]
            /\ wlast' = [op |-> "add_subplot", kind |-> "ValueError",
                         parent_plot |-> latest_plot]
       ELSE /\ heap' = [heap EXCEPT ![latest_plot].nice_colors = @ - 1,
                                    ![latest_plot].items = @ \cup {y_axis_name}]
            /\ wlast' = [op |-> "add_subplot", kind |-> "ok",
                         parent_plot |-> latest_plot,
                         x_link |-> first_plot]
    /\ UNCHANGED <<plot_row_counter, first_plot, plots, latest_plot>>
    /\ UNCHANGED tvars

\* the registry after remove_plot(key): pop raises KeyError for a missing key
remove_plot_dict(ps, key) == IF key \in DOMAIN ps THEN DictPop(ps, key) ELSE ps

remove_plot(key) ==
    /\ plots' = remove_plot_dict(plots, key)
    /\ wlast' = [op |-> "remove_plot",
                 kind |-> IF key \in DOMAIN plots THEN "ok" ELSE "KeyError"]
    /\ UNCHANGED <<plot_row_counter, first_plot, latest_plot, heap>>
    /\ UNCHANGED tvars

remove_all_plots ==
    /\ plots' = <<>>
    /\ first_plot' = NoPlot
    /\ wlast' = [op |-> "remove_all_plots", kind |-> "ok"]
    /\ UNCHANGED <<plot_row_counter, latest_plot, heap>>
    /\ UNCHANGED tvars

AddPlot == \E t \in Titles : add_plot(t)

AddSubplot == \E y \in YAxisNames : add_subplot(y)

RemovePlot ==
    \E key \in DOMAIN plots \cup {TitleKey(t) : t \in Titles} : remove_plot(key)

RemoveAllPlots == remove_all_plots

\* ---- the state machine: one Ticker and the calls made on it ----

NoCall == [op |-> "none"]

\* Ticker.__init__(name, long_name, data): the arguments are stored as given
Init ==
    /\ \E t \in Tickers : name = t[1] /\ long_name = t[2]
    /\ data \in Tables
    /\ last = NoCall
    /\ prev = NoCall
    /\ WidgetInit

\* self.data after a call with the given outcome
StoreAfter(result) ==
    IF result.kind = "ok" /\ "row_index" \in DOMAIN result
    THEN StoreAfterGetRow(data, result.row_index)
    ELSE data

Called(call) ==
    /\ prev' = last
    /\ last' = call
    /\ data' = StoreAfter(call.result)
    /\ UNCHANGED <<name, long_name>>
    /\ UNCHANGED wvars

GetFirstDate ==
    Called([op |-> "get_first_date", result |-> get_first_date(data)])

GetLastDate ==
    Called([op |-> "get_last_date", result |-> get_last_date(data)])

GetDay ==
    \E date \in Dates :
        Called([op |-> "get_day", date |-> date,
                result |-> get_day(data, date)])

GetDayOrFirstAfter ==
    \E date \in Dates :
        Called([op |-> "get_day_or_first_after", date |-> date,
                result |-> get_day_or_first_after(data, date)])

GetDayOrLastBefore ==
    \E date \in Dates :
        Called([op |-> "get_day_or_last_before", date |-> date,
                result |-> get_day_or_last_before(data, date)])

Next ==
    \/ GetFirstDate
    \/ GetLastDate
    \/ GetDay
    \/ GetDayOrFirstAfter
    \/ GetDayOrLastBefore

Spec == Init /\ [][Next]_vars

\* ---- the state machine of one LinkedPlotWidget ----

\* a constructed widget, next to a Ticker without rows that is left alone
PlotInit ==
    /\ \E t \in Tickers : name = t[1] /\ long_name = t[2]
    /\ data = <<>>
    /\ last = NoCall
    /\ prev = NoCall
    /\ WidgetInit

PlotNext ==
    \/ AddPlot
    \/ AddSubplot
    \/ RemovePlot
    \/ RemoveAllPlots

PlotSpec == PlotInit /\ [][PlotNext]_vars

\* ---- vocabulary of the properties ----

\* the rows are in ascending order of their stored instants
Sorted(d) == \A i, j \in 1..Len(d) : i < j => d[i].date <= d[j].date

\* no two rows carry the same stored instant
UniqueInstants(d) == \A i, j \in 1..Len(d) : d[i].date = d[j].date => i = j

\* the instant falls on the local calendar day: from its midnight up to,
\* not including, the next midnight
OnDay(ts, date) == Timestamp(date) <= ts /\ ts < Timestamp(date + 1)

\* no two rows fall on the same calendar date
UniqueDates(d) ==
    \A i, j \in 1..Len(d) :
        (\E c \in Dates : OnDay(d[i].date, c) /\ OnDay(d[j].date, c)) => i = j

\* the indices of the rows stored at the midnight instant of the date
RowsAt(d, date) == {i \in 1..Len(d) : d[i].date = Timestamp(date)}

IsLookup(call, op) == call.op = op
Succeeded(call) == call.result.kind = "ok"

C2_DuplicateInstantFails ==
    (IsLookup(last, "get_day") /\ Cardinality(RowsAt(data, last.date)) > 1)
    => last.result = GenericException

C2_Witness ==
    /\ IsLookup(last, "get_day")
    /\ Cardinality(RowsAt(data, last.date)) = 2
    /\ last.result.kind = "Exception"

\* ---- C3 ----
\* C3: on every table, the empty one included, get_day on a calendar date
\* that is the date of no row fails with KeyError and returns no row.  The
\* precondition taken is the weaker one, no row stored at the midnight
\* instant of d, which covers the tables no row of which falls on day d.
C3_AbsentDateNotFound ==
    (IsLookup(last, "get_day") /\ RowsAt(data, last.date) = {})
    => last.result = KeyError

\* the same with the calendar reading of "the date of a row"
C3_AbsentCalendarDate ==
    (/\ IsLookup(last, "get_day")
     /\ \A i \in 1..Len(data) : ~OnDay(data[i].date, last.date))
    => last.result = KeyError

C3_Witness ==
    /\ IsLookup(last, "get_day")
    /\ Len(data) = 2
    /\ \A i \in 1..Len(data) : ~OnDay(data[i].date, last.date)
    /\ last.result.kind = "KeyError"

C3_WitnessEmpty ==
    /\ IsLookup(last, "get_day")
    /\ Len(data) = 0
    /\ last.result.kind = "KeyError"

\* ---- C4 ----
\* the indices of the rows whose instant is at or after the instant of d
AtOrAfter(d, date) == {i \in 1..Len(d) : d[i].date >= Timestamp(date)}

\* the indices of the rows whose instant is at or before the instant of d
AtOrBefore(d, date) == {i \in 1..Len(d) : d[i].date <= Timestamp(date)}

\* the returned record is the row at index i with its date translated
IsRow(result, d, i) ==
    /\ result.kind = "ok"
    /\ result.row_index = i
    /\ OnDay(d[i].date, result.row.date)

\* C4: on a sorted table, get_day_or_first_after(d) returns the earliest row
\* whose instant is >= the midnight instant of d (the first in row order and
\* the one with the least instant, so the qualifying row closest to d), and
\* it fails with KeyError exactly when the table is empty or the instant of
\* d is after the instant of the last row.
C4_CeilingLookup ==
    (IsLookup(last, "get_day_or_first_after") /\ Sorted(data))
    => LET q == AtOrAfter(data, last.date)
       IN  /\ last.result = KeyError
              <=> (Len(data) = 0 \/ data[Len(data)].date < Timestamp(last.date))
           /\ last.result # KeyError
              => \E i \in q :
                    /\ IsRow(last.result, data, i)
                    /\ \A j \in q : i <= j /\ data[i].date <= data[j].date

C4_Witness ==
    /\ IsLookup(last, "get_day_or_first_after")
    /\ Sorted(data) /\ Len(data) = MaxLen
    /\ Succeeded(last)
    /\ last.result.row_index = Len(data)
    /\ Cardinality(AtOrAfter(data, last.date)) = 1
    /\ last.result.row.date > last.date

C4_WitnessFails ==
    /\ IsLookup(last, "get_day_or_first_after")
    /\ Sorted(data) /\ Len(data) = 2
    /\ last.result = KeyError

C5_WitnessFails ==
    /\ IsLookup(last, "get_day_or_last_before")
    /\ Sorted(data) /\ Len(data) = 2
    /\ last.result = KeyError

\* ---- C6 ----
\* C6: boundary round trip.  On every non-empty table (taken here with the
\* data model's invariant: sorted, one row per calendar date),
\* get_day_or_last_before(get_first_date()) succeeds and returns rows[0],
\* and get_day_or_first_after(get_last_date()) succeeds and returns
\* rows[-1].
C6_BoundaryRoundTrip ==
    (Len(data) > 0 /\ Sorted(data) /\ UniqueDates(data))
    => /\ (/\ IsLookup(prev, "get_first_date") /\ Succeeded(prev)
           /\ IsLookup(last, "get_day_or_last_before")
           /\ last.date = prev.result.date)
          => IsRow(last.result, data, 1)
       /\ (/\ IsLookup(prev, "get_last_date") /\ Succeeded(prev)
           /\ IsLookup(last, "get_day_or_first_after")
           /\ last.date = prev.result.date)
          => IsRow(last.result, data, Len(data))

\* the half of C6 about the last row
C6_LastRowHalf ==
    (/\ Len(data) > 0 /\ Sorted(data) /\ UniqueDates(data)
     /\ IsLookup(prev, "get_last_date") /\ Succeeded(prev)
     /\ IsLookup(last, "get_day_or_first_after")
     /\ last.date = prev.result.date)
    => IsRow(last.result, data, Len(data))

\* ---- C7 ----
\* the ceiling lookup of the earlier date a and of the later date b
CeilingMonotone(a, b) ==
    /\ Succeeded(b) => Succeeded(a)
    /\ (Succeeded(a) /\ Succeeded(b))
       => /\ a.result.row.date <= b.result.row.date
          /\ data[a.result.row_index].date <= data[b.result.row_index].date

\* C7: monotonicity.  On a sorted table, for dates d <= d', if
\* get_day_or_first_after(d') succeeds then get_day_or_first_after(d)
\* succeeds too, and the date of the row returned for d is <= the date of
\* the row returned for d'.
C7_CeilingMonotone ==
    (/\ IsLookup(prev, "get_day_or_first_after")
     /\ IsLookup(last, "get_day_or_first_after")
     /\ Sorted(data))
    => /\ prev.date <= last.date => CeilingMonotone(prev, last)
       /\ last.date <= prev.date => CeilingMonotone(last, prev)

C7_Witness ==
    /\ IsLookup(prev, "get_day_or_first_after")
    /\ IsLookup(last, "get_day_or_first_after")
    /\ Sorted(data) /\ Len(data) = MaxLen
    /\ prev.date < last.date
    /\ Succeeded(prev) /\ Succeeded(last)
    /\ prev.result.row.date < last.result.row.date

C7_WitnessLaterFails ==
    /\ IsLookup(prev, "get_day_or_first_after")
    /\ IsLookup(last, "get_day_or_first_after")
    /\ Sorted(data) /\ Len(data) > 0
    /\ prev.date < last.date
    /\ Succeeded(prev) /\ ~Succeeded(last)

\* ---- C8 ----
\* C8: on a table with no rows get_first_date and get_last_date both fail
\* with IndexError and return no date; on a non-empty table they return the
\* calendar date of rows[0] and of rows[-1].
C8_BoundaryDates ==
    /\ IsLookup(last, "get_first_date")
       => IF Len(data) = 0 THEN last.result = IndexError
          ELSE Succeeded(last) /\ OnDay(data[1].date, last.result.date)
    /\ IsLookup(last, "get_last_date")
       => IF Len(data) = 0 THEN last.result = IndexError
          ELSE Succeeded(last) /\ OnDay(data[Len(data)].date, last.result.date)

C8_Witness ==
    /\ IsLookup(prev, "get_first_date") /\ IsLookup(last, "get_last_date")
    /\ Len(data) = MaxLen
    /\ Succeeded(prev) /\ Succeeded(last)
    /\ prev.result.date < last.result.date

C8_WitnessEmpty ==
    /\ IsLookup(prev, "get_first_date") /\ IsLookup(last, "get_last_date")
    /\ Len(data) = 0
    /\ prev.result = IndexError /\ last.result = IndexError

\* ---- C9 ----
\* the two calls are the same operation with the same argument
SameQuery(a, b) ==
    /\ a.op = b.op
    /\ DOMAIN a = DOMAIN b
    /\ "date" \in DOMAIN a => a.date = b.date

\* C9: every operation leaves name, long_name and the rows unchanged,
\* whether it returns or fails; the translation of the returned record's
\* date does not alter any stored instant, and a query repeated on the same
\* table gives the same outcome.
C9_ReadOnly ==
    [][/\ data' = data
       /\ name' = name
       /\ long_name' = long_name
       /\ SameQuery(last, last') => last'.result = last.result]_vars

C9_Witness ==
    /\ IsLookup(prev, "get_day") /\ IsLookup(last, "get_day")
    /\ SameQuery(prev, last)
    /\ Succeeded(prev) /\ last.result = prev.result
    /\ data[last.result.row_index].date # last.result.row.date

C9_WitnessFails ==
    /\ IsLookup(prev, "get_day_or_last_before")
    /\ SameQuery(prev, last)
    /\ Len(data) > 0
    /\ prev.result = KeyError /\ last.result = KeyError

\* ---- C10 ----
\* C10: on a sorted table with unique dates and for every date d, get_day(d)
\* succeeds exactly when get_day_or_first_after(d) and
\* get_day_or_last_before(d) both succeed and return the same row; all
\* three then return that row; and whenever the ceiling and the floor both
\* succeed, the floor row's date <= d <= the ceiling row's date.
C10_LookupsAgree ==
    (/\ IsLookup(prev, "get_day_or_first_after")
     /\ IsLookup(last, "get_day_or_last_before")
     /\ prev.date = last.date
     /\ Sorted(data) /\ UniqueInstants(data))
    => LET exact == get_day(data, last.date)
           same == /\ Succeeded(prev) /\ Succeeded(last)
                   /\ prev.result.row_index = last.result.row_index
       IN  /\ exact.kind = "ok" <=> same
           /\ exact.kind = "ok" => exact = prev.result /\ exact = last.result
           /\ (Succeeded(prev) /\ Succeeded(last))
              => /\ last.result.row.date <= last.date
                 /\ last.date <= prev.result.row.date
                 /\ data[last.result.row_index].date <= Timestamp(last.date)
                 /\ Timestamp(last.date) <= data[prev.result.row_index].date

C10_Witness ==
    /\ IsLookup(prev, "get_day_or_first_after")
    /\ IsLookup(last, "get_day_or_last_before")
    /\ prev.date = last.date
    /\ Sorted(data) /\ UniqueInstants(data) /\ Len(data) = MaxLen
    /\ get_day(data, last.date).kind = "ok"
    /\ prev.result = last.result
    /\ last.result.row_index = 2

C10_WitnessGap ==
    /\ IsLookup(prev, "get_day_or_first_after")
    /\ IsLookup(last, "get_day_or_last_before")
    /\ prev.date = last.date
    /\ Sorted(data) /\ UniqueInstants(data)
    /\ Succeeded(prev) /\ Succeeded(last)
    /\ last.result.row.date < last.date /\ last.date < prev.result.row.date
    /\ get_day(data, last.date) = KeyError

\* ---- C11 ----
\* the plot is None or currently registered in self.plots
NoneOrRegistered(p) == p = NoPlot \/ p \in Registered(plots)

\* the add_plot part of C11: the new plot is registered under a key that
\* was not in use, and every plot registered before stays registered
C11_AddPlotFreshKey ==
    wlast.op = "add_plot"
    => /\ wlast.key \notin wlast.keys_before
       /\ DOMAIN plots = wlast.keys_before \cup {wlast.key}
       /\ wlast.registered_before \subseteq Registered(plots)
       /\ Cardinality(Registered(plots)) = Cardinality(DOMAIN plots)

\* C11: plot registry invariant.  After any sequence of add_plot,
\* remove_plot, remove_all_plots and add_subplot, first_plot and latest_plot
\* are each None or a plot registered in plots; so add_subplot fails with
\* KeyError whenever no plot is registered, and otherwise never attaches a
\* series to, or x-links it against, a plot that has been removed; and every
\* add_plot registers the new plot under a key distinct from the existing
\* keys without replacing an existing plot.
C11_PlotRegistry ==
    /\ NoneOrRegistered(first_plot)
    /\ NoneOrRegistered(latest_plot)
    /\ wlast.op = "add_subplot"
       => /\ Registered(plots) = {} => wlast.kind = "KeyError"
          /\ "parent_plot" \in DOMAIN wlast
             => wlast.parent_plot \in Registered(plots)
          /\ "x_link" \in DOMAIN wlast => NoneOrRegistered(wlast.x_link)
    /\ C11_AddPlotFreshKey

\* a subplot is attached to a plot that remove_plot has taken out
C11_SubplotOnRemovedPlot ==
    /\ wlast.op = "add_subplot" /\ wlast.kind = "ok"
    /\ Registered(plots) # {}
    /\ wlast.parent_plot \notin Registered(plots)
    /\ wlast.x_link \notin Registered(plots) /\ wlast.x_link # NoPlot

\* add_plot stores the new plot under id(plot) because its title is taken
C11_IdKeyUsed ==
    /\ wlast.op = "add_plot" /\ wlast.key.kind = "id"
    /\ Cardinality(DOMAIN plots) = 2

TypeOK ==
    /\ data \in Tables
    /\ last.op \in {"none", "get_first_date", "get_last_date", "get_day",
                    "get_day_or_first_after", "get_day_or_last_before"}
====
